---- MODULE Spec2Model ----
(***************************************************************************)
(* Model of src/paint_shop_optimizer.py: the PaintShopOptimizer pipeline   *)
(* (load_data, analyze_paint_distribution, optimize_sequence_milp,         *)
(* assign_vehicles_to_batches, generate_summary_metrics), the MILP model   *)
(* it builds (variables x, y, dev, constraints 1-4, objective) and the     *)
(* pure function calculate_ideal_positions with its float64 arithmetic.    *)
(***************************************************************************)
EXTENDS Integers, Sequences, FiniteSets, TLC

VARIABLES
    file,             \* rows of the sheet read by load_data (the environment)
    batch_size,       \* self.batch_size
    weights,          \* changeover_weight / levelload_weight of the objective
    pc,               \* how far the caller got: constructed, loaded, analyzed, ...
    error,            \* type of the exception that ended the run, or "none"
    vehicles_df,      \* self.vehicles_df
    paint_summary,    \* self.paint_summary
    prob,             \* the MILP problem and the solver's answer
    batch_df,         \* the batch sequence returned by optimize_sequence_milp
    num_changeovers,  \* self.num_changeovers
    solution_df,      \* self.solution_df
    metrics,          \* result of generate_summary_metrics
    ideal_call        \* one application of calculate_ideal_positions

vars == <<file, batch_size, weights, pc, error, vehicles_df, paint_summary,
          prob, batch_df, num_changeovers, solution_df, metrics, ideal_call>>

----------------------------------------------------------------------------
(* Bounds of the checked instances.                                        *)

MaxUnits == 4
MaxBatchSize == 2
MaxIdealT == 30

(* Program constants.                                                      *)

DefaultBatchSize == 20
ChangeoverWeight == 1000
LevelloadWeight == 1

----------------------------------------------------------------------------
(* Generic helpers.                                                        *)

RECURSIVE SumSeqRange(_, _, _)
SumSeqRange(s, lo, hi) ==
    IF lo > hi THEN 0
    ELSE IF lo = hi THEN s[lo]
    ELSE LET mid == (lo + hi) \div 2
         IN  SumSeqRange(s, lo, mid) + SumSeqRange(s, mid + 1, hi)

(* the sum of the entries of a sequence of integers *)
SumSeq(s) == SumSeqRange(s, 1, Len(s))

Abs(v) == IF v < 0 THEN -v ELSE v

----------------------------------------------------------------------------
(* float64 arithmetic (lines 68, 97, 98).  A double is kept exactly: its   *)
(* 53-bit significand M in four limbs, M = t*2^39 + l2*2^26 + l1*2^13 + l0 *)
(* with 2^13 <= t < 2^14 and the other limbs below 2^13, and the number of *)
(* binary places sh, standing for M / 2^sh.  Zero has t = 0.  Every        *)
(* operation rounds to nearest, ties to even, as IEEE 754 does.  Operands  *)
(* are integers below 2^13, far above the batch counts that occur.         *)

Limb == 2^13

FloatZero == [t |-> 0, l2 |-> 0, l1 |-> 0, l0 |-> 0, sh |-> 0]

(* number of bits of v >= 1 *)
BitLen(v) == CHOOSE n \in 1..31 : 2^(n - 1) <= v /\ (n = 31 \/ v < 2^n)

(* significand + 1; 2^53 is renormalised to 2^52 with one place fewer *)
IncrSignificand(f) ==
    IF f.l0 + 1 < Limb THEN [f EXCEPT !.l0 = @ + 1]
    ELSE IF f.l1 + 1 < Limb THEN [f EXCEPT !.l0 = 0, !.l1 = @ + 1]
    ELSE IF f.l2 + 1 < Limb THEN [f EXCEPT !.l0 = 0, !.l1 = 0, !.l2 = @ + 1]
    ELSE IF f.t + 1 < 2 * Limb
    THEN [f EXCEPT !.l0 = 0, !.l1 = 0, !.l2 = 0, !.t = @ + 1]
    ELSE [t |-> Limb, l2 |-> 0, l1 |-> 0, l0 |-> 0, sh |-> f.sh - 1]

(* f is the exact result cut after 53 bits; `above` says the part cut off  *)
(* is more than half a unit in the last place, `half` that it is exactly   *)
(* half                                                                    *)
RoundNearestEven(f, above, half) ==
    IF above \/ (half /\ f.l0 % 2 = 1) THEN IncrSignificand(f) ELSE f

(* a / b for integers a >= 0, b >= 1 *)
FloatDiv(a, b) ==
    IF a = 0 THEN FloatZero
    ELSE LET k  == CHOOSE k1 \in 0..13 :
                      a * 2^k1 >= b /\ (k1 = 0 \/ a * 2^(k1 - 1) < b)
             a1 == a * 2^k
             q0 == a1 \div b
             c1 == 14 - BitLen(q0)
             v1 == (a1 % b) * 2^c1
             v2 == (v1 % b) * Limb
             v3 == (v2 % b) * Limb
             v4 == (v3 % b) * Limb
             r  == v4 % b
         IN  RoundNearestEven([t  |-> q0 * 2^c1 + v1 \div b,
                               l2 |-> v2 \div b,
                               l1 |-> v3 \div b,
                               l0 |-> v4 \div b,
                               sh |-> 39 + c1 + k],
                              2 * r > b, 2 * r = b)

(* i * f for an integer i >= 0 *)
FloatMulInt(i, f) ==
    IF i = 0 \/ f.t = 0 THEN FloatZero
    ELSE LET v0 == f.l0 * i
             v1 == f.l1 * i + v0 \div Limb
             v2 == f.l2 * i + v1 \div Limb
             pt == f.t * i + v2 \div Limb
             p0 == v0 % Limb
             p1 == v1 % Limb
             p2 == v2 % Limb
             d  == BitLen(pt) - 14
             D  == 2^d
             E  == Limb \div D
             cut == p0 % D
         IN  IF d = 0
             THEN [t |-> pt, l2 |-> p2, l1 |-> p1, l0 |-> p0, sh |-> f.sh]
             ELSE RoundNearestEven([t  |-> pt \div D,
                                    l2 |-> p2 \div D + (pt % D) * E,
                                    l1 |-> p1 \div D + (p2 % D) * E,
                                    l0 |-> p0 \div D + (p1 % D) * E,
                                    sh |-> f.sh - d],
                                   2 * cut > D, 2 * cut = D)

(* int(f): the integer part of f >= 0 *)
FloatToInt(f) ==
    IF f.t = 0 \/ f.sh >= 53 THEN 0
    ELSE IF f.sh >= 39 THEN f.t \div 2^(f.sh - 39)
    ELSE IF f.sh >= 26 THEN f.t * 2^(39 - f.sh) + f.l2 \div 2^(f.sh - 26)
    ELSE f.t * 2^(39 - f.sh) + f.l2 * 2^(26 - f.sh) + f.l1 \div 2^(f.sh - 13)

(* whether f >= 0 has a fractional part *)
FloatHasFraction(f) ==
    IF f.t = 0 THEN FALSE
    ELSE IF f.sh >= 53 THEN TRUE
    ELSE IF f.sh >= 39
    THEN f.t % 2^(f.sh - 39) # 0 \/ f.l2 # 0 \/ f.l1 # 0 \/ f.l0 # 0
    ELSE IF f.sh >= 26
    THEN f.l2 % 2^(f.sh - 26) # 0 \/ f.l1 # 0 \/ f.l0 # 0
    ELSE f.l1 % 2^(f.sh - 13) # 0 \/ f.l0 # 0

(* np.ceil(f).astype(int) for f >= 0 *)
FloatCeilToInt(f) ==
    IF FloatHasFraction(f) THEN FloatToInt(f) + 1 ELSE FloatToInt(f)

----------------------------------------------------------------------------
(* calculate_ideal_positions, lines 81-99.  The list is 1-indexed here:    *)
(* element k is the target of occurrence i = k - 1.                        *)

IdealPositionsWithoutCenter(paint_code, num_batches, total_batches) ==
    LET spacing == FloatDiv(total_batches, num_batches)
    IN  [k \in 1..num_batches |-> FloatToInt(FloatMulInt(k - 1, spacing))]

calculate_ideal_positions(paint_code, num_batches, total_batches) ==
    IF num_batches = 1
    THEN <<total_batches \div 2>>
    ELSE LET spacing == FloatDiv(total_batches, num_batches)
         IN  [k \in 1..num_batches |-> FloatToInt(FloatMulInt(k - 1, spacing))]

----------------------------------------------------------------------------
(* analyze_paint_distribution, lines 53-79.                                *)

Paints == {"A", "B"}

PaintsOf(df) == {df[r].paint : r \in 1..Len(df)}

CountOf(df, p) == Cardinality({r \in 1..Len(df) : df[r].paint = p})

(* Python's % : the result takes the sign of the divisor *)
PyMod(a, b) == a - b * (a \div b)

CeilDivFloorPlusOne(count, bs) == count \div bs + 1

(* np.ceil(count / bs).astype(int), line 68, for bs # 0 *)
CeilDiv(count, bs) ==
    IF bs > 0 THEN FloatCeilToInt(FloatDiv(count, bs))
    ELSE -FloatToInt(FloatDiv(count, -bs))

SummaryRow(p, count, bs) ==
    [paint_code    |-> p,
     vehicle_count |-> count,
     full_batches  |-> count \div bs,
     remainder     |-> PyMod(count, bs),
     total_batches |-> CeilDiv(count, bs)]

(* Line 68 raises IntCastingNaNError (a ValueError) when count / 0 = inf   *)
(* is cast to int; an empty frame has nothing to cast.                     *)
AnalyzeRaises(df, bs) == bs = 0 /\ Len(df) > 0

(* value_counts and sort_values(ascending=False): one row per distinct     *)
(* paint code, by descending count; the order among equal counts is not    *)
(* fixed by the sort.                                                      *)
Summaries(df, bs) ==
    LET ps == PaintsOf(df)
        n  == Cardinality(ps)
    IN  { [k \in 1..n |-> SummaryRow(o[k], CountOf(df, o[k]), bs)] :
            o \in { q \in [1..n -> ps] :
                      /\ \A i, j \in 1..n : i # j => q[i] # q[j]
                      /\ \A i \in 1..(n - 1) :
                            CountOf(df, q[i]) >= CountOf(df, q[i + 1]) } }

----------------------------------------------------------------------------
(* optimize_sequence_milp, lines 101-237: the data of the model.           *)

Slots(T) == 0..(T - 1)

(* lines 116-134 *)
ModelData(summary) ==
    LET total == SumSeq([k \in 1..Len(summary) |-> summary[k].total_batches])
    IN  [paint_codes     |-> [k \in 1..Len(summary) |-> summary[k].paint_code],
         paint_batches   |-> [k \in 1..Len(summary) |-> summary[k].total_batches],
         total_batches   |-> total,
         ideal_positions |->
             [k \in 1..Len(summary) |->
                 calculate_ideal_positions(summary[k].paint_code,
                                           summary[k].total_batches, total)]]

(* index sets of x (lines 142-144) and dev (lines 152-157); a paint code   *)
(* is named by its position k in paint_codes                               *)
XKeys(md) == (1..Len(md.paint_codes)) \X Slots(md.total_batches)

DevKeys(md) ==
    UNION { ((0..(md.paint_batches[k] - 1)) \X Slots(md.total_batches)) \X {k} :
              k \in 1..Len(md.paint_codes) }

(* dev is indexed <<<<i, b>>, k>> for dev[c, i, b] with c = paint_codes[k] *)
DevAt(dev, k, i, b) == dev[<<<<i, b>>, k>>]

(* Constraint 1, lines 161-163 *)
Constraint1(md, x) ==
    \A b \in Slots(md.total_batches) :
        SumSeq([k \in 1..Len(md.paint_codes) |-> x[<<k, b>>]]) = 1

(* Constraint 2, lines 165-168 *)
Constraint2AtLeastOne(md, x) ==
    \A k \in 1..Len(md.paint_codes) :
        SumSeq([s \in 1..md.total_batches |-> x[<<k, s - 1>>]]) >= 1

Constraint2(md, x) ==
    \A k \in 1..Len(md.paint_codes) :
        SumSeq([s \in 1..md.total_batches |-> x[<<k, s - 1>>]])
            = md.paint_batches[k]

(* Constraint 3 and the first-batch setup, lines 170-176 *)
Constraint3(md, x, y) ==
    /\ \A b \in 1..(md.total_batches - 1) :
          \A k \in 1..Len(md.paint_codes) :
              y[b] >= x[<<k, b>>] - x[<<k, b - 1>>]
    /\ y[0] = 1

(* Constraint 4, lines 178-188, with lowBound=0 of line 156 *)
Constraint4(md, x, dev) ==
    \A k \in 1..Len(md.paint_codes) :
        \A i \in 0..(md.paint_batches[k] - 1) :
            LET ideal_pos == md.ideal_positions[k][i + 1]
            IN  \A b \in Slots(md.total_batches) :
                    /\ DevAt(dev, k, i, b) >= 0
                    /\ DevAt(dev, k, i, b) >= (b - ideal_pos) * x[<<k, b>>]
                    /\ DevAt(dev, k, i, b) >= (ideal_pos - b) * x[<<k, b>>]

(* Objective, lines 190-200 *)
Objective(w, md, y, dev) ==
    w.changeover * SumSeq([s \in 1..md.total_batches |-> y[s - 1]])
    + w.levelload *
        SumSeq([k \in 1..Len(md.paint_codes) |->
            SumSeq([n \in 1..md.paint_batches[k] |->
                SumSeq([s \in 1..md.total_batches |->
                    DevAt(dev, k, n - 1, s - 1)])])])

----------------------------------------------------------------------------
(* The solver (PULP_CBC_CMD, lines 206-207) is outside the program: it     *)
(* answers with any assignment that satisfies the constraints, and reports *)
(* "Optimal" only for one that minimises the objective; stopped by the     *)
(* time limit it reports "Not Solved" and leaves its incumbent in place.   *)

FeasibleX(md) ==
    { x \in [XKeys(md) -> {0, 1}] : Constraint1(md, x) /\ Constraint2(md, x) }

FeasibleY(md, x) ==
    { y \in [Slots(md.total_batches) -> {0, 1}] : Constraint3(md, x, y) }

(* the least y and dev that constraints 3 and 4 allow for x *)
YTight(md, x) ==
    [b \in Slots(md.total_batches) |->
        IF b = 0 THEN 1
        ELSE IF \E k \in 1..Len(md.paint_codes) : x[<<k, b>>] - x[<<k, b - 1>>] = 1
        THEN 1 ELSE 0]

DevTight(md, x) ==
    [key \in DevKeys(md) |->
        LET k == key[2]
            i == key[1][1]
            b == key[1][2]
        IN  Abs(b - md.ideal_positions[k][i + 1]) * x[<<k, b>>]]

DevSlack(md, x) == [key \in DevKeys(md) |-> DevTight(md, x)[key] + 1]

ObjectiveOf(w, md, x) == Objective(w, md, YTight(md, x), DevTight(md, x))

IsMinimal(w, md, X, obj) == \A x2 \in X : obj <= ObjectiveOf(w, md, x2)

SolverAnswers(w, md) ==
    LET X == FeasibleX(md)
    IN  UNION { UNION { { [x |-> x, y |-> y, dev |-> dev, status |-> st] :
                            st \in IF IsMinimal(w, md, X, Objective(w, md, y, dev))
                                   THEN {"Optimal", "Not Solved"}
                                   ELSE {"Not Solved"} } :
                        y \in FeasibleY(md, x),
                        dev \in { d \in {DevTight(md, x), DevSlack(md, x)} :
                                    Constraint4(md, x, d) } } :
                x \in X }

(* x of the assignment that gives slots [0, p) to k1, [p, q) to k2 and     *)
(* [q, T) to k3                                                            *)
RunsX(md, k1, k2, k3, p, q) ==
    [key \in XKeys(md) |->
        LET k == key[1]
            b == key[2]
        IN  IF k = (IF b < p THEN k1 ELSE IF b < q THEN k2 ELSE k3) THEN 1 ELSE 0]

RunAssignments(md) ==
    LET T == md.total_batches
        K == 1..Len(md.paint_codes)
        shapes == { r \in K \X K \X K \X (0..T) \X (0..T) :
                      /\ r[4] <= r[5]
                      /\ r[1] = r[2] => r[4] = 0
                      /\ r[2] = r[3] => r[5] = T
                      /\ \A k \in K :
                            (IF r[1] = k THEN r[4] ELSE 0)
                            + (IF r[2] = k THEN r[5] - r[4] ELSE 0)
                            + (IF r[3] = k THEN T - r[5] ELSE 0)
                                = md.paint_batches[k] }
    IN  { x \in { RunsX(md, r[1], r[2], r[3], r[4], r[5]) : r \in shapes } :
            Constraint1(md, x) /\ Constraint2(md, x) }

IncumbentAnswers(w, md) ==
    { [x |-> x, y |-> YTight(md, x), dev |-> DevTight(md, x),
       status |-> "Not Solved"] : x \in RunAssignments(md) }

(* What lines 206-213 leave behind: any result of the solver, or, when    *)
(* the time limit stopped it, one of its incumbents                        *)
Answers(timed_out, w, md) ==
    IF timed_out THEN IncumbentAnswers(w, md) ELSE SolverAnswers(w, md)

(* Extraction, lines 215-228: per slot, in slot order, the first paint    *)
(* code whose x exceeds 0.5; a slot without one adds no entry              *)
SlotHits(md, x, b) == { k \in 1..Len(md.paint_codes) : 2 * x[<<k, b>>] > 1 }

Extract(md, x) ==
    LET slots == SelectSeq([s \in 1..md.total_batches |-> s - 1],
                           LAMBDA b : SlotHits(md, x, b) # {})
    IN  [j \in 1..Len(slots) |->
            [batch_position |-> slots[j],
             paint_code |-> md.paint_codes[
                 CHOOSE k1 \in SlotHits(md, x, slots[j]) :
                     \A k2 \in SlotHits(md, x, slots[j]) : k1 <= k2]]]

(* line 231 *)
CountChangeovers(md, y) ==
    Cardinality({ b \in Slots(md.total_batches) : 2 * y[b] > 1 })

----------------------------------------------------------------------------
(* assign_vehicles_to_batches, lines 239-283.                              *)

(* DataFrame.head(n) *)
HeadRows(rows, n) ==
    IF n >= 0 THEN SubSeq(rows, 1, IF n < Len(rows) THEN n ELSE Len(rows))
    ELSE SubSeq(rows, 1, IF Len(rows) + n > 0 THEN Len(rows) + n ELSE 0)

PaintVehiclesUnfiltered(df, paint, assignments, bs) ==
    HeadRows(SelectSeq(df, LAMBDA v : v.paint = paint), bs)

(* lines 263-266 *)
PaintVehicles(df, paint, assignments, bs) ==
    LET taken == { assignments[j].vin : j \in 1..Len(assignments) }
    IN  HeadRows(SelectSeq(df, LAMBDA v : v.paint = paint /\ v.vin \notin taken), bs)

RECURSIVE AssignFrom(_, _, _, _, _)
AssignFrom(df, batches, idx, assignments, bs) ==
    IF idx > Len(batches) THEN assignments
    ELSE LET batch == batches[idx]
             pv    == PaintVehicles(df, batch.paint_code, assignments, bs)
             new   == [j \in 1..Len(pv) |->
                         [vin                 |-> pv[j].vin,
                          paint               |-> pv[j].paint,
                          batch_id            |-> batch.batch_position + 1,
                          production_sequence |-> Len(assignments) + j,
                          original_sequence   |-> pv[j].production_sequence]]
         IN  AssignFrom(df, batches, idx + 1, assignments \o new, bs)

AssignVehicles(df, batch_sequence, bs) ==
    AssignFrom(df,
               SortSeq(batch_sequence,
                       LAMBDA a, b : a.batch_position < b.batch_position),
               1, <<>>, bs)

----------------------------------------------------------------------------
(* generate_summary_metrics, lines 307-344 (the two float-valued entries,  *)
(* changeover_rate and paint_distribution_per_100, are left out).          *)

SummaryMetrics(sol) ==
    [total_vehicles     |-> Len(sol),
     unique_paint_codes |-> Cardinality({ sol[j].paint : j \in 1..Len(sol) }),
     total_batches      |-> Cardinality({ sol[j].batch_id : j \in 1..Len(sol) }),
     total_changeovers  |->
         Cardinality({ j \in 2..Len(sol) : sol[j].paint # sol[j - 1].paint }),
     changeover_positions |->
         LET at == SelectSeq([j \in 1..Len(sol) |-> j],
                             LAMBDA j : j > 1 /\ sol[j].paint # sol[j - 1].paint)
         IN  [n \in 1..Len(at) |-> sol[at[n]].production_sequence]]

----------------------------------------------------------------------------
(* State after construction (lines 24-35) and the inputs.                  *)

NoProb   == [status |-> "Unbuilt", total_batches |-> 0, paint_codes |-> <<>>,
             paint_batches |-> <<>>, ideal_positions |-> <<>>,
             x |-> <<>>, y |-> <<>>, dev |-> <<>>]
NoMetrics == [total_vehicles |-> 0, unique_paint_codes |-> 0, total_batches |-> 0,
              total_changeovers |-> 0, changeover_positions |-> <<>>]
NoCall   == [n |-> 0, T |-> 0, done |-> FALSE, positions |-> <<>>]

FileRows(paints, order) ==
    [r \in 1..Len(paints) |->
        [vin |-> r, paint |-> paints[r], production_sequence |-> order[r]]]

(* the sheet lists the units by ascending or by descending sequence number *)
Orders(N) == { [r \in 1..N |-> r], [r \in 1..N |-> N + 1 - r] }

SmallFiles ==
    UNION { { FileRows(ps, o) : ps \in [1..N -> Paints], o \in Orders(N) } :
              N \in 0..MaxUnits }

DefaultWeights == [changeover |-> ChangeoverWeight, levelload |-> LevelloadWeight]

Constructed ==
    /\ pc = "constructed"
    /\ error = "none"
    /\ vehicles_df = <<>>
    /\ paint_summary = <<>>
    /\ prob = NoProb
    /\ batch_df = <<>>
    /\ num_changeovers = 0
    /\ solution_df = <<>>
    /\ metrics = NoMetrics

Init ==
    /\ file \in SmallFiles
    /\ batch_size \in (-1)..MaxBatchSize
    /\ weights = DefaultWeights
    /\ ideal_call = NoCall
    /\ Constructed

----------------------------------------------------------------------------
(* The operations.                                                         *)

Raise(name) ==
    /\ pc' = "raised"
    /\ error' = name

(* load_data, lines 37-51 *)
load_data ==
    /\ pc = "constructed"
    /\ vehicles_df' = file
    /\ pc' = "loaded"
    /\ UNCHANGED <<file, batch_size, weights, error, paint_summary, prob,
                   batch_df, num_changeovers, solution_df, metrics, ideal_call>>

(* analyze_paint_distribution, lines 53-79 *)
analyze_paint_distribution ==
    /\ pc = "loaded"
    /\ IF AnalyzeRaises(vehicles_df, batch_size)
       THEN /\ Raise("ValueError")
            /\ UNCHANGED paint_summary
       ELSE /\ paint_summary' \in Summaries(vehicles_df, batch_size)
            /\ pc' = "analyzed"
            /\ UNCHANGED error
    /\ UNCHANGED <<file, batch_size, weights, vehicles_df, prob, batch_df,
                   num_changeovers, solution_df, metrics, ideal_call>>

(* What optimize_sequence_milp does with the summary it works on: line 176 *)
(* raises KeyError when y has no key 0, before the solver is called.       *)
Optimize(summary, timed_out) ==
    LET md == ModelData(summary)
    IN  /\ paint_summary' = summary
        /\ IF md.total_batches <= 0
           THEN /\ Raise("KeyError")
                /\ UNCHANGED <<prob, batch_df, num_changeovers>>
           ELSE \E ans \in Answers(timed_out, weights, md) :
                  /\ prob' = [status          |-> ans.status,
                              total_batches   |-> md.total_batches,
                              paint_codes     |-> md.paint_codes,
                              paint_batches   |-> md.paint_batches,
                              ideal_positions |-> md.ideal_positions,
                              x |-> ans.x, y |-> ans.y, dev |-> ans.dev]
                  /\ batch_df' = Extract(md, ans.x)
                  /\ num_changeovers' = CountChangeovers(md, ans.y)
                  /\ pc' = "optimized"
                  /\ UNCHANGED error

(* optimize_sequence_milp, lines 101-237; lines 112-113 run the analysis   *)
(* first when there is no summary yet                                      *)
OptimizeWith(timed_out) ==
    /\ pc \in {"loaded", "analyzed"}
    /\ IF pc = "loaded"
       THEN IF AnalyzeRaises(vehicles_df, batch_size)
            THEN /\ Raise("ValueError")
                 /\ UNCHANGED <<paint_summary, prob, batch_df, num_changeovers>>
            ELSE \E summary \in Summaries(vehicles_df, batch_size) :
                    Optimize(summary, timed_out)
       ELSE Optimize(paint_summary, timed_out)
    /\ UNCHANGED <<file, batch_size, weights, vehicles_df, solution_df, metrics,
                   ideal_call>>

optimize_sequence_milp == OptimizeWith(FALSE)

(* assign_vehicles_to_batches, lines 239-283 *)
assign_vehicles_to_batches ==
    /\ pc = "optimized"
    /\ solution_df' = AssignVehicles(vehicles_df, batch_df, batch_size)
    /\ pc' = "assigned"
    /\ UNCHANGED <<file, batch_size, weights, error, vehicles_df, paint_summary,
                   prob, batch_df, num_changeovers, metrics, ideal_call>>

(* generate_summary_metrics, lines 307-344 *)
generate_summary_metrics ==
    /\ pc = "assigned"
    /\ metrics' = SummaryMetrics(solution_df)
    /\ pc' = "done"
    /\ UNCHANGED <<file, batch_size, weights, error, vehicles_df, paint_summary,
                   prob, batch_df, num_changeovers, solution_df, ideal_call>>

Next ==
    \/ load_data
    \/ analyze_paint_distribution
    \/ optimize_sequence_milp
    \/ assign_vehicles_to_batches
    \/ generate_summary_metrics

Spec == Init /\ [][Next]_vars

----------------------------------------------------------------------------
(* The 40-unit scenario: 25 units of paint A and 15 of paint B, in four    *)
(* row arrangements, with the default batch size and weights.              *)

ScenarioCounts == [A |-> 25, B |-> 15]

ScenarioPaints ==
    LET a == ScenarioCounts.A
        b == ScenarioCounts.B
    IN  { [r \in 1..(a + b) |-> IF r <= a THEN "A" ELSE "B"],
          [r \in 1..(a + b) |-> IF r <= b THEN "B" ELSE "A"],
          [r \in 1..(a + b) |-> IF r <= 2 * b /\ r % 2 = 0 THEN "B" ELSE "A"],
          [r \in 1..(a + b) |-> IF r <= 2 * b /\ r % 2 = 1 THEN "B" ELSE "A"] }

ScenarioFiles ==
    { FileRows(ps, o) : ps \in ScenarioPaints,
                        o \in Orders(ScenarioCounts.A + ScenarioCounts.B) }

InitScenario ==
    /\ file \in ScenarioFiles
    /\ batch_size = DefaultBatchSize
    /\ weights = DefaultWeights
    /\ ideal_call = NoCall
    /\ Constructed

ScenarioSpec == InitScenario /\ [][Next]_vars

----------------------------------------------------------------------------
(* calculate_ideal_positions on its own: every (num_batches,               *)
(* total_batches) with 1 <= num_batches <= total_batches <= MaxIdealT.     *)

InitIdeal ==
    /\ file = <<>>
    /\ batch_size = DefaultBatchSize
    /\ weights = DefaultWeights
    /\ ideal_call \in { [n |-> n, T |-> T, done |-> FALSE, positions |-> <<>>] :
                          n \in 1..MaxIdealT, T \in 1..MaxIdealT }
    /\ ideal_call.n <= ideal_call.T
    /\ Constructed

call_calculate_ideal_positions ==
    /\ ~ideal_call.done
    /\ ideal_call' =
          [ideal_call EXCEPT
              !.done = TRUE,
              !.positions = calculate_ideal_positions("A", ideal_call.n, ideal_call.T)]
    /\ UNCHANGED <<file, batch_size, weights, pc, error, vehicles_df,
                   paint_summary, prob, batch_df, num_changeovers, solution_df,
                   metrics>>

NextIdeal == call_calculate_ideal_positions

IdealSpec == InitIdeal /\ [][NextIdeal]_vars

----------------------------------------------------------------------------
(* Large schedules with weights that satisfy                               *)
(* W_changeover > W_levelload * T * max n_c.  The solver is stopped by its *)
(* time limit (line 206) and leaves a feasible incumbent; the incumbents   *)
(* considered are the assignments made of at most three runs of one paint  *)
(* code each, with the least y and dev the constraints allow.              *)

PriorityCounts == { <<71, 36>>, <<3, 2>>, <<2, 1>> }

PriorityFiles ==
    { FileRows([r \in 1..(c[1] + c[2]) |-> IF r <= c[1] THEN "A" ELSE "B"],
               [r \in 1..(c[1] + c[2]) |-> r]) : c \in PriorityCounts }

MaxOfSeq(s) == CHOOSE v \in { s[k] : k \in 1..Len(s) } : \A k \in 1..Len(s) : s[k] <= v

(* T * max n_c of the model built from summary *)
DominationBound(md) == md.total_batches * MaxOfSeq(md.paint_batches)

DominatingWeights(f, bs) ==
    LET md == ModelData(CHOOSE summary \in Summaries(f, bs) : TRUE)
    IN  { [changeover |-> l * DominationBound(md) + 1, levelload |-> l] :
            l \in {1, 2} }

InitPriority ==
    /\ file \in PriorityFiles
    /\ batch_size = 1
    /\ weights \in DominatingWeights(file, batch_size)
    /\ ideal_call = NoCall
    /\ Constructed

optimize_until_time_limit == OptimizeWith(TRUE)

NextPriority ==
    \/ load_data
    \/ analyze_paint_distribution
    \/ optimize_until_time_limit

PrioritySpec == InitPriority /\ [][NextPriority]_vars

----------------------------------------------------------------------------
(* Vocabulary of the properties.                                           *)

Solved == pc \in {"optimized", "assigned", "done"}

Assigned == pc \in {"assigned", "done"}

(* ceil(count / size) in integer arithmetic, size >= 1 *)
RequiredBatches(count, size) == (count + size - 1) \div size

(* the paint codes of a batch sequence, in order *)
PaintsOfBatches(batches) == [j \in 1..Len(batches) |-> batches[j].paint_code]

(* slot 0, plus every slot whose paint code differs from the one before *)
RealizedChangeovers(batches) ==
    Cardinality({ j \in 1..Len(batches) :
                    j = 1 \/ batches[j].paint_code # batches[j - 1].paint_code })

(* Every paint code has at least one slot, so no assignment has fewer      *)
(* changeovers than there are paint codes; the assignments that reach this *)
(* minimum give each paint code one run (up to three paint codes here).    *)
MinChangeoverAssignments(md) ==
    LET K == 1..Len(md.paint_codes)
    IN  { x \in { RunsX(md, k1, k2, k3, md.paint_batches[k1],
                        md.paint_batches[k1] + md.paint_batches[k2]) :
                    k1 \in K, k2 \in K, k3 \in K } :
            /\ Constraint1(md, x)
            /\ Constraint2(md, x)
            /\ CountChangeovers(md, YTight(md, x)) = Len(md.paint_codes) }

(* sum over each paint code and each i of |s_(c,i) - ideal_c[i]|, where     *)
(* s_(c,i) is the i-th slot, in ascending order, assigned to c             *)
MatchedDeviation(p) ==
    SumSeq([k \in 1..Len(p.paint_codes) |->
        LET mine == SelectSeq([s \in 1..p.total_batches |-> s - 1],
                              LAMBDA b : p.x[<<k, b>>] = 1)
        IN  SumSeq([n \in 1..Len(mine) |->
                Abs(mine[n] - p.ideal_positions[k][n])])])

TotalDeviation(p) ==
    SumSeq([k \in 1..Len(p.paint_codes) |->
        SumSeq([n \in 1..p.paint_batches[k] |->
            SumSeq([s \in 1..p.total_batches |->
                DevAt(p.dev, k, n - 1, s - 1)])])])

----------------------------------------------------------------------------
(* C1: in every solver result the pipeline goes on with, each slot has     *)
(* exactly one paint code with x = 1 and each paint code has exactly       *)
(* ceil(count / batch_size) slots; the extracted batch sequence has one    *)
(* entry per slot index 0..total_batches-1, in order, and holds each paint *)
(* code exactly ceil(count / batch_size) times.                            *)
C1_OneCodePerSlot ==
    Solved =>
        LET T     == prob.total_batches
            codes == prob.paint_codes
        IN  /\ \A b \in Slots(T) :
                  Cardinality({ k \in 1..Len(codes) : prob.x[<<k, b>>] = 1 }) = 1
            /\ \A k \in 1..Len(codes) :
                  Cardinality({ b \in Slots(T) : prob.x[<<k, b>>] = 1 })
                      = RequiredBatches(CountOf(vehicles_df, codes[k]), batch_size)
            /\ Len(batch_df) = T
            /\ \A j \in 1..Len(batch_df) : batch_df[j].batch_position = j - 1
            /\ \A k \in 1..Len(codes) :
                  Cardinality({ j \in 1..Len(batch_df) :
                                  batch_df[j].paint_code = codes[k] })
                      = RequiredBatches(CountOf(vehicles_df, codes[k]), batch_size)

C1_Witness ==
    /\ pc = "optimized"
    /\ prob.total_batches >= 3
    /\ Len(prob.paint_codes) = 2
    /\ prob.status = "Not Solved"
    /\ \E k \in 1..2 : prob.paint_batches[k] >= 2

(* C2: the unit sequence holds every loaded unit exactly once, numbers     *)
(* them 1..N in order, never goes back to an earlier batch id, and every   *)
(* batch of the batch sequence holds between 1 and batch_size units, all   *)
(* of the batch's paint code.                                              *)
C2_UnitsAssignedOnce ==
    Assigned =>
        /\ Len(solution_df) = Len(vehicles_df)
        /\ \A r \in 1..Len(vehicles_df) :
              Cardinality({ j \in 1..Len(solution_df) :
                              solution_df[j].vin = vehicles_df[r].vin }) = 1
        /\ \A j \in 1..Len(solution_df) : solution_df[j].production_sequence = j
        /\ \A j \in 1..(Len(solution_df) - 1) :
              solution_df[j].batch_id <= solution_df[j + 1].batch_id
        /\ \A j \in 1..Len(solution_df) :
              \E n \in 1..Len(batch_df) :
                  solution_df[j].batch_id = batch_df[n].batch_position + 1
        /\ \A n \in 1..Len(batch_df) :
              LET members == { j \in 1..Len(solution_df) :
                                 solution_df[j].batch_id
                                     = batch_df[n].batch_position + 1 }
              IN  /\ Cardinality(members) >= 1
                  /\ Cardinality(members) <= batch_size
                  /\ \A j \in members :
                        solution_df[j].paint = batch_df[n].paint_code

C2_Witness ==
    /\ pc = "assigned"
    /\ batch_size = 2
    /\ Len(batch_df) >= 3
    /\ Len(solution_df) = Len(vehicles_df)
    /\ \E n \in 1..Len(batch_df) :
          Cardinality({ j \in 1..Len(solution_df) :
                          solution_df[j].batch_id = batch_df[n].batch_position + 1 })
              = 1

(* C3 (as claimed): whatever the row order of the loaded units, two units  *)
(* of the same paint code keep the order of their original sequence        *)
(* numbers in the new sequence.                                            *)
C3_OriginalOrderKept ==
    Assigned =>
        \A i, j \in 1..Len(solution_df) :
            ( /\ solution_df[i].paint = solution_df[j].paint
              /\ solution_df[i].original_sequence < solution_df[j].original_sequence )
            => solution_df[i].production_sequence < solution_df[j].production_sequence

(* C4 (as claimed): for every solver result the pipeline goes on with, the *)
(* changeover count of the realized batch sequence equals the sum of y,    *)
(* the value stored in num_changeovers.                                    *)
C4_ExtractionConsistent ==
    Solved =>
        /\ num_changeovers = SumSeq([s \in 1..prob.total_batches |-> prob.y[s - 1]])
        /\ RealizedChangeovers(batch_df) = num_changeovers

(* C7: for a non-empty unit collection and batch_size >= 1 the summary has *)
(* one row per distinct paint code, with required batches = ceil(count /   *)
(* batch_size), full batches = floor(count / batch_size) and remainder =   *)
(* count mod batch_size; the counts add up to the number of units and the  *)
(* required batches to the number of slots of the model.                   *)
C7_SummaryTotals ==
    ( /\ pc \in {"analyzed", "optimized", "assigned", "done"}
      /\ Len(vehicles_df) > 0
      /\ batch_size >= 1 )
    => /\ Len(paint_summary) = Cardinality(PaintsOf(vehicles_df))
       /\ { paint_summary[k].paint_code : k \in 1..Len(paint_summary) }
              = PaintsOf(vehicles_df)
       /\ \A k \in 1..Len(paint_summary) :
              LET row == paint_summary[k]
              IN  /\ row.vehicle_count = CountOf(vehicles_df, row.paint_code)
                  /\ row.total_batches * batch_size >= row.vehicle_count
                  /\ (row.total_batches - 1) * batch_size < row.vehicle_count
                  /\ row.full_batches * batch_size <= row.vehicle_count
                  /\ (row.full_batches + 1) * batch_size > row.vehicle_count
                  /\ row.remainder
                        = row.vehicle_count - row.full_batches * batch_size
       /\ SumSeq([k \in 1..Len(paint_summary) |-> paint_summary[k].vehicle_count])
              = Len(vehicles_df)
       /\ Solved =>
              /\ prob.total_batches
                    = SumSeq([k \in 1..Len(paint_summary) |->
                                paint_summary[k].total_batches])
              /\ DOMAIN prob.y = Slots(prob.total_batches)

C7_Witness ==
    /\ pc = "optimized"
    /\ batch_size = 2
    /\ Len(paint_summary) = 2
    /\ \E k \in 1..2 : /\ paint_summary[k].remainder = 1
                        /\ paint_summary[k].full_batches = 1
                        /\ paint_summary[k].total_batches = 2
    /\ \E k \in 1..2 : /\ paint_summary[k].full_batches = 0
                        /\ paint_summary[k].total_batches = 1
    /\ prob.total_batches = 3

(* C9 (as claimed): an empty unit collection fails with ValidationError, a *)
(* batch_size <= 0 with ModelConstructionError, and in both cases nothing  *)
(* is solved and no batch sequence, unit sequence or metrics are produced. *)
C9_DegenerateRejected ==
    /\ (pc = "raised" /\ file = <<>>) => error = "ValidationError"
    /\ (pc = "raised" /\ file # <<>> /\ batch_size <= 0)
          => error = "ModelConstructionError"
    /\ (pc # "constructed" /\ (file = <<>> \/ batch_size <= 0))
          => /\ ~Solved
             /\ prob.status = "Unbuilt"
             /\ batch_df = <<>>
             /\ solution_df = <<>>
             /\ metrics = NoMetrics

(* C10 (as claimed): in every optimal solution the deviations add up to    *)
(* the distance of each batch from its own ideal position, the i-th slot   *)
(* of a paint code counted against ideal position i only.                  *)
C10_DeviationPerOccurrence ==
    (Solved /\ prob.status = "Optimal") => TotalDeviation(prob) = MatchedDeviation(prob)

(* C5 (as claimed): in the 40-unit scenario every minimal-objective        *)
(* solution places the slots as A,B,A or as B,A,A and has exactly 2        *)
(* changeovers.                                                            *)
C5_ScenarioAsClaimed ==
    (Solved /\ prob.status = "Optimal")
    => /\ PaintsOfBatches(batch_df) \in { <<"A", "B", "A">>, <<"B", "A", "A">> }
       /\ num_changeovers = 2

(* C5 (amended): in the 40-unit scenario (A needs 2 batches, B needs 1, 3  *)
(* slots, ideal positions A = [0,1], B = [1]) every minimal-objective      *)
(* solution places the slots as A,A,B and has exactly 2 changeovers.       *)
C5_ScenarioOptimum ==
    (Solved /\ prob.status = "Optimal")
    => /\ prob.total_batches = 3
       /\ prob.paint_codes = <<"A", "B">>
       /\ prob.paint_batches = <<2, 1>>
       /\ prob.ideal_positions = << <<0, 1>>, <<1>> >>
       /\ PaintsOfBatches(batch_df) = <<"A", "A", "B">>
       /\ num_changeovers = 2
       /\ RealizedChangeovers(batch_df) = 2

C5_Witness ==
    /\ pc = "done"
    /\ prob.status = "Optimal"
    /\ Len(vehicles_df) = 40
    /\ batch_size = 20
    /\ metrics.total_vehicles = 40

C8_IdealPositions ==
    ideal_call.done =>
        LET n   == ideal_call.n
            T   == ideal_call.T
            pos == ideal_call.positions
        IN  /\ Len(pos) = n
            /\ \A k \in 1..n : 0 <= pos[k] /\ pos[k] < T
            /\ \A k \in 1..(n - 1) : pos[k] <= pos[k + 1]
            /\ n = 1 => pos = <<T \div 2>>
            /\ n > 1 => \A k \in 1..n : pos[k] = ((k - 1) * T) \div n

====
